---------------------------- MODULE Spec2Model ----------------------------
(***************************************************************************)
(* Model of the four-stage mail migration pipeline:                        *)
(*   0-mbox_to_eml.py      (Mbox Splitter)                                 *)
(*   1-email_date_fixer.py (Date Recovery Engine)                          *)
(*   2-delete_duplicates.py (Deduplicator)                                 *)
(*   3-eml_to_mbox.py      (Mbox Assembler)                                *)
(*                                                                         *)
(* Text is a sequence of tokens.  A token stands for one character, except *)
(* for the few multi-character strings whose identity the code tests       *)
(* ("From " at the start of a line, header names, header values).          *)
(***************************************************************************)
EXTENDS Integers, Sequences, FiniteSets, TLC

VARIABLES
    pc,            \* position of the running script
    argc,          \* len(sys.argv) of the invocation
    input_exists,  \* does the input path of the invocation exist
    exit_code,     \* exit status per stage script, -1 while it has not exited
    \* ---- 3-eml_to_mbox.py
    eml_dir,       \* the .eml files of the input directory, in rglob order
    scan_i,        \* next file of eml_dir to scan
    total_found,
    email_files,   \* list of (date, from_addr, eml_path)
    emit_i,        \* next entry of email_files to emit
    mbox_exists,   \* has the output mbox been created
    mbox,          \* text of the output mbox
    processed,
    errors,
    emitted,       \* history: (date, eml_path) of every separator written
    \* ---- 0-mbox_to_eml.py
    messages,      \* result of split_mbox
    save_i,        \* next message to save
    out_dir,       \* output directory: sequence of (filename, content)
    processed0,
    errors0,
    \* ---- 2-delete_duplicates.py
    run,               \* 1: first run, 2: the run on the first run's output
    src_tree,          \* the .eml files under source_path, in rglob order
    an_i,              \* next file of src_tree to analyse
    total_files,
    duplicates,        \* groups in insertion order: (key, files)
    grp_i,             \* next group to process
    kept_files,
    duplicate_groups,
    total_duplicates,
    out_tree,          \* files under output_root: (path, content)
    chosen,            \* history: (files, best) of every group processed
    first_run,         \* history: source and output tree of the first run
    \* ---- 1-email_date_fixer.py
    fix_dir,           \* the .eml files under input_path, in rglob order
    fix_i,             \* next file of fix_dir to process
    successful,
    failed_files,
    fixed_tree,        \* files written under fixed_root
    \* ---- the working directory across runs
    existing,          \* output folders that exist: 1 is "<stage>/<name>",
                       \* n > 1 is "<stage>/<name> (n)"
    output_root,       \* the folder setup_output_directory returned, 0 before
    before,            \* the outputs on disk when the current run started
    reruns             \* how often a script was started again

vars == <<pc, argc, input_exists, exit_code,
          eml_dir, scan_i, total_found, email_files, emit_i, mbox_exists,
          mbox, processed, errors, emitted,
          messages, save_i, out_dir, processed0, errors0,
          run, src_tree, an_i, total_files, duplicates, grp_i, kept_files,
          duplicate_groups, total_duplicates, out_tree, chosen, first_run,
          fix_dir, fix_i, successful, failed_files, fixed_tree,
          existing, output_root, before, reruns>>

mboxVars == <<eml_dir, scan_i, total_found, email_files, emit_i, mbox_exists,
              mbox, processed, errors, emitted>>
emlVars == <<messages, save_i, out_dir, processed0, errors0>>
dedupVars == <<run, src_tree, an_i, total_files, duplicates, grp_i, kept_files,
               duplicate_groups, total_duplicates, out_tree, chosen, first_run>>
fixVars == <<fix_dir, fix_i, successful, failed_files, fixed_tree>>
diskVars == <<existing, output_root, before, reruns>>

\* the state of a stage that is not running
IdleMbox ==
    /\ eml_dir = <<>>
    /\ scan_i = 1
    /\ total_found = 0
    /\ email_files = <<>>
    /\ emit_i = 1
    /\ mbox_exists = FALSE
    /\ mbox = <<>>
    /\ processed = 0
    /\ errors = 0
    /\ emitted = <<>>

IdleEml ==
    /\ messages = <<>>
    /\ save_i = 1
    /\ out_dir = <<>>
    /\ processed0 = 0
    /\ errors0 = 0

IdleDedup ==
    /\ run = 1
    /\ src_tree = <<>>
    /\ an_i = 1
    /\ total_files = 0
    /\ duplicates = <<>>
    /\ grp_i = 1
    /\ kept_files = 0
    /\ duplicate_groups = 0
    /\ total_duplicates = 0
    /\ out_tree = {}
    /\ chosen = <<>>
    /\ first_run = <<>>

IdleFix ==
    /\ fix_dir = <<>>
    /\ fix_i = 1
    /\ successful = 0
    /\ failed_files = <<>>
    /\ fixed_tree = {}

-----------------------------------------------------------------------------
(* folder_utils.py                                                         *)

\* lines 14-19: the first counter from `counter` on whose folder is free
RECURSIVE FirstFree(_, _)
FirstFree(exists, counter) ==
    IF counter \notin exists THEN counter ELSE FirstFree(exists, counter + 1)

\* lines 6-19: base_path itself (folder 1) if it does not exist, else the
\* first "name (n)", n >= 2, that does not
get_unique_folder_name(exists) ==
    IF 1 \notin exists THEN 1 ELSE FirstFree(exists, 2)

\* lines 21-38: the folder returned, which mkdir has created
setup_output_directory(exists) == get_unique_folder_name(exists)

\* what a run finds on disk: the output folders of stages 1 and 2, the
\* mbox of stage 3 and the output directory of stage 0
Snapshot == [existing |-> existing, mbox_exists |-> mbox_exists, mbox |-> mbox,
             out_dir |-> out_dir]

\* a working directory without earlier output
FreshDisk ==
    /\ existing = {}
    /\ output_root = 0
    /\ before = Snapshot
    /\ reruns = 0

-----------------------------------------------------------------------------
(* Bounds of the model.                                                    *)
MaxFiles == 2      \* files in an input directory

-----------------------------------------------------------------------------
(* Text helpers: Python str operations on token sequences.                 *)
NL == "\n"
SP == " "
FromSp == "From "          \* the five characters 'F','r','o','m',' '
FromWord == "From"         \* what is left of "From " when its space is stripped

IsWs(t) == t \in {NL, SP}

RECURSIVE Concat(_)
Concat(ss) == IF ss = <<>> THEN <<>> ELSE Head(ss) \o Concat(Tail(ss))

\* str.find: index of the first occurrence of token t at or after position p, else 0
RECURSIVE FindFrom(_, _, _)
FindFrom(s, t, p) ==
    IF p > Len(s) THEN 0
    ELSE IF s[p] = t THEN p
    ELSE FindFrom(s, t, p + 1)

\* str.lstrip()
RECURSIVE LStrip(_)
LStrip(s) ==
    IF s # <<>> /\ IsWs(Head(s)) THEN LStrip(Tail(s)) ELSE s

\* str.rstrip(): trailing whitespace goes, including the space that ends "From "
RECURSIVE RStrip(_)
RStrip(s) ==
    IF s = <<>> THEN s
    ELSE IF IsWs(s[Len(s)]) THEN RStrip(SubSeq(s, 1, Len(s) - 1))
    ELSE IF s[Len(s)] = FromSp THEN SubSeq(s, 1, Len(s) - 1) \o <<FromWord>>
    ELSE s

\* str.strip()
Strip(s) == RStrip(LStrip(s))

\* iteration over a text file: the lines, each keeping its line terminator
RECURSIVE Lines(_)
Lines(s) ==
    IF s = <<>> THEN <<>>
    ELSE LET e == FindFrom(s, NL, 1)
         IN IF e = 0 THEN <<s>>
            ELSE <<SubSeq(s, 1, e)>> \o Lines(SubSeq(s, e + 1, Len(s)))

\* line.startswith('From ')
StartsWithFrom(line) == line # <<>> /\ line[1] = FromSp

-----------------------------------------------------------------------------
(* email.message_from_string / Message.get on token text.                  *)
HeaderNames == {"Date:", "From:", "Subject:", "Message-ID:", "To:"}

\* A resolved point in time is an integer; these tokens spell the dates the
\* RFC-822 parser accepts, every other Date value makes it raise.
DateTokens == <<"d1", "d2", "d3">>
Dates == 1..Len(DateTokens)
NoDate == 0

\* the header block of a message: its lines up to the first line that is
\* neither a header line nor a continuation line (a leading "From " envelope
\* line is skipped)
RECURSIVE HeaderLines(_)
HeaderLines(ls) ==
    IF ls = <<>> THEN <<>>
    ELSE LET l == Head(ls)
         IN IF l[1] \in HeaderNames \/ l[1] = SP
            THEN <<l>> \o HeaderLines(Tail(ls))
            ELSE <<>>

ParsedHeaderLines(text) ==
    LET ls == Lines(text)
    IN IF ls # <<>> /\ StartsWithFrom(Head(ls))
       THEN HeaderLines(Tail(ls))
       ELSE HeaderLines(ls)

\* a line without its terminator
Chomp(l) == IF l # <<>> /\ l[Len(l)] = NL THEN SubSeq(l, 1, Len(l) - 1) ELSE l

\* the continuation lines that follow a header line, each kept with the
\* line break that precedes it
RECURSIVE Continuation(_)
Continuation(ls) ==
    IF ls # <<>> /\ Head(ls)[1] = SP
    THEN <<NL>> \o Chomp(Head(ls)) \o Continuation(Tail(ls))
    ELSE <<>>

RECURSIVE SkipSpaces(_)
SkipSpaces(s) == IF s # <<>> /\ Head(s) = SP THEN SkipSpaces(Tail(s)) ELSE s

\* msg.get(name, ''): the value of the first header called name, '' if none
RECURSIVE GetIn(_, _)
GetIn(ls, name) ==
    IF ls = <<>> THEN <<>>
    ELSE IF Head(ls)[1] = name
         THEN SkipSpaces(Tail(Chomp(Head(ls)))) \o Continuation(Tail(ls))
         ELSE GetIn(Tail(ls), name)

MsgGet(text, name) == GetIn(ParsedHeaderLines(text), name)

\* email.utils.parsedate_to_datetime: the date, or NoDate where it raises
parsedate_to_datetime(date_str) ==
    IF Len(date_str) = 1 /\ \E d \in Dates : date_str = <<DateTokens[d]>>
    THEN CHOOSE d \in Dates : date_str = <<DateTokens[d]>>
    ELSE NoDate

-----------------------------------------------------------------------------
(* 3-eml_to_mbox.py                                                        *)

\* s.split(t)[0]
Before(s, t) ==
    LET i == FindFrom(s, t, 1) IN IF i = 0 THEN s ELSE SubSeq(s, 1, i - 1)

\* s.split(t)[1], for s that contains t
AfterFirst(s, t) ==
    LET i == FindFrom(s, t, 1)
        rest == SubSeq(s, i + 1, Len(s))
    IN Before(rest, t)

UnknownSender == <<"unknown@unknown.com">>

\* lines 61-70: the bare address of the From header
SenderOf(text) ==
    LET from_header == MsgGet(text, "From:")
        from_addr == IF FindFrom(from_header, "<", 1) # 0
                        /\ FindFrom(from_header, ">", 1) # 0
                     THEN Before(AfterFirst(from_header, "<"), ">")
                     ELSE Strip(from_header)
    IN IF from_addr = <<>> THEN UnknownSender ELSE from_addr

\* get_email_date_and_sender of a file (text, mtime); ok is FALSE where the
\* function returns (None, None)
get_email_date_and_sender(f) ==
    LET date_str == MsgGet(f.text, "Date:")
    IN IF date_str # <<>>
       THEN IF parsedate_to_datetime(date_str) = NoDate
            THEN [ok |-> FALSE, date |-> NoDate, from_addr |-> <<>>]
            ELSE [ok |-> TRUE, date |-> parsedate_to_datetime(date_str),
                  from_addr |-> SenderOf(f.text)]
       ELSE [ok |-> TRUE, date |-> f.mtime, from_addr |-> SenderOf(f.text)]

\* date.strftime('%a %b %d %H:%M:%S %Y')
StrfTokens == <<"T1", "T2", "T3">>

create_mbox_separator(date, from_addr) ==
    <<FromSp>> \o from_addr \o <<SP, StrfTokens[date], NL>>

\* lines 134-137: one line as it is written to the mbox
QuoteLine(line) == IF StartsWithFrom(line) THEN <<">">> \o line ELSE line

RECURSIVE QuoteLines(_)
QuoteLines(ls) ==
    IF ls = <<>> THEN <<>> ELSE QuoteLine(Head(ls)) \o QuoteLines(Tail(ls))

\* ---- the input directories the model explores

\* the text of an .eml file with the given Date value, From value and body
MkText(date_hdr, from_hdr, body) ==
    (IF date_hdr = <<>> THEN <<>> ELSE <<"Date:", SP>> \o date_hdr \o <<NL>>)
    \o (IF from_hdr = <<>> THEN <<>> ELSE <<"From:", SP>> \o from_hdr \o <<NL>>)
    \o <<NL>> \o body

EmlPool ==
    { [text |-> MkText(<<"d1">>, <<"a@x">>, <<"x", NL>>), mtime |-> 3],
      [text |-> MkText(<<"d2">>, <<"N", SP, "<", "b@y", ">">>, <<"x">>), mtime |-> 3],
      [text |-> MkText(<<"d3">>, <<"a@x">>, <<FromSp, "x", NL, "x", NL>>), mtime |-> 1],
      [text |-> MkText(<<"d1">>, <<"a@x">>, <<">", FromSp, "x", NL>>), mtime |-> 3],
      [text |-> MkText(<<>>, <<>>, <<"x", NL>>), mtime |-> 2],
      [text |-> MkText(<<"dbad">>, <<"a@x">>, <<"x", NL>>), mtime |-> 2],
      [text |-> MkText(<<"d2">>, <<"a@x", NL, SP, "(c)">>, <<"x", NL>>), mtime |-> 1],
      [text |-> MkText(<<"d3">>, <<"a@x">>, <<SP, "x", SP, NL, NL>>), mtime |-> 1],
      [text |-> <<>>, mtime |-> 1] }

SeqsUpTo(S, n) == UNION { [1..k -> S] : k \in 0..n }

EmlDirs == SeqsUpTo(EmlPool, MaxFiles)

\* what can go wrong while one message is copied (lines 127-149): nothing,
\* open() of the .eml raises, or reading raises after the first line
CopyFaults == {"none", "open", "read"}

\* ---- __main__ and convert_to_mbox

Start3 ==
    /\ pc = "main3"
    /\ argc \in 1..4
    /\ input_exists \in BOOLEAN
    /\ exit_code = [st \in 0..3 |-> -1]
    /\ eml_dir \in IF input_exists THEN EmlDirs ELSE {<<>>}
    /\ scan_i = 1
    /\ total_found = 0
    /\ email_files = <<>>
    /\ emit_i = 1
    /\ mbox_exists = FALSE
    /\ mbox = <<>>
    /\ processed = 0
    /\ errors = 0
    /\ emitted = <<>>
    /\ IdleEml
    /\ IdleDedup
    /\ IdleFix

Init3 == Start3 /\ FreshDisk

\* lines 168-172, 91-94: usage error and missing input end the script with 1
Main3 ==
    /\ pc = "main3"
    /\ IF argc \notin {2, 3} \/ ~input_exists
       THEN /\ exit_code' = [exit_code EXCEPT ![3] = 1]
            /\ pc' = "exit3"
       ELSE /\ pc' = "scan"
            /\ UNCHANGED exit_code
    /\ UNCHANGED <<argc, input_exists, mboxVars, emlVars>>
    /\ UNCHANGED <<dedupVars, fixVars>>
    /\ UNCHANGED diskVars

\* lines 101-110: one iteration of the scanning loop
Scan3 ==
    /\ pc = "scan"
    /\ scan_i <= Len(eml_dir)
    /\ LET r == get_email_date_and_sender(eml_dir[scan_i])
       IN email_files' =
            IF r.ok
            THEN Append(email_files,
                        [date |-> r.date, from_addr |-> r.from_addr,
                         eml_path |-> scan_i])
            ELSE email_files
    /\ total_found' = total_found + 1
    /\ scan_i' = scan_i + 1
    /\ UNCHANGED <<pc, argc, input_exists, exit_code, eml_dir, emit_i,
                   mbox_exists, mbox, processed, errors, emitted, emlVars>>
    /\ UNCHANGED <<dedupVars, fixVars>>
    /\ UNCHANGED diskVars

\* lines 112-125: after the scan; nothing to convert ends the script with 1,
\* otherwise the mbox is opened for writing, in the order of email_files
ScanDone3 ==
    /\ pc = "scan"
    /\ scan_i > Len(eml_dir)
    /\ IF email_files = <<>>
       THEN /\ exit_code' = [exit_code EXCEPT ![3] = 1]
            /\ pc' = "exit3"
            /\ UNCHANGED <<mbox_exists, mbox>>
       ELSE /\ pc' = "emit"
            /\ mbox_exists' = TRUE
            /\ mbox' = <<>>
            /\ UNCHANGED exit_code
    /\ UNCHANGED <<argc, input_exists, eml_dir, scan_i, total_found,
                   email_files, emit_i, processed, errors, emitted, emlVars>>
    /\ UNCHANGED <<dedupVars, fixVars>>
    /\ UNCHANGED diskVars

\* lines 126-149: one iteration of the writing loop
Emit3 ==
    /\ pc = "emit"
    /\ emit_i <= Len(email_files)
    /\ \E fault \in CopyFaults :
         LET e == email_files[emit_i]
             separator == create_mbox_separator(e.date, e.from_addr)
             ls == Lines(eml_dir[e.eml_path].text)
         IN /\ fault = "read" => Len(ls) >= 2
            /\ emitted' = Append(emitted, [date |-> e.date, eml_path |-> e.eml_path])
            /\ CASE fault = "none" ->
                      /\ mbox' = mbox \o separator \o QuoteLines(ls) \o <<NL>>
                      /\ processed' = processed + 1
                      /\ UNCHANGED errors
                 [] fault = "open" ->
                      /\ mbox' = mbox \o separator
                      /\ errors' = errors + 1
                      /\ UNCHANGED processed
                 [] fault = "read" ->
                      /\ mbox' = mbox \o separator \o QuoteLine(ls[1])
                      /\ errors' = errors + 1
                      /\ UNCHANGED processed
    /\ emit_i' = emit_i + 1
    /\ UNCHANGED <<pc, argc, input_exists, exit_code, eml_dir, scan_i,
                   total_found, email_files, mbox_exists, emlVars>>
    /\ UNCHANGED <<dedupVars, fixVars>>
    /\ UNCHANGED diskVars

\* lines 151-166, 184-185: convert_to_mbox returns True
Finish3 ==
    /\ pc = "emit"
    /\ emit_i > Len(email_files)
    /\ exit_code' = [exit_code EXCEPT ![3] = 0]
    /\ pc' = "exit3"
    /\ UNCHANGED <<argc, input_exists, mboxVars, emlVars>>
    /\ UNCHANGED <<dedupVars, fixVars>>
    /\ UNCHANGED diskVars

-----------------------------------------------------------------------------
(* 0-mbox_to_eml.py                                                        *)

\* the separator regex (?:^|\n)From [^\n]+\n tried at position s of text t:
\* the position of the last token of the match, 0 if it does not match there
MatchEnd(t, s) ==
    LET f == IF s = 1 /\ t[1] = FromSp THEN 1
             ELSE IF t[s] = NL /\ s + 1 <= Len(t) /\ t[s + 1] = FromSp THEN s + 1
             ELSE 0
        e == IF f = 0 THEN 0 ELSE FindFrom(t, NL, f + 1)
    IN IF f # 0 /\ e >= f + 2 THEN e ELSE 0

\* start of the leftmost match at or after position p, 0 if there is none
RECURSIVE NextMatch(_, _)
NextMatch(t, p) ==
    IF p > Len(t) THEN 0
    ELSE IF MatchEnd(t, p) # 0 THEN p
    ELSE NextMatch(t, p + 1)

\* separator.split(mbox_content), from position p on
RECURSIVE RegexSplit(_, _)
RegexSplit(t, p) ==
    LET s == NextMatch(t, p)
    IN IF s = 0 THEN <<SubSeq(t, p, Len(t))>>
       ELSE <<SubSeq(t, p, s - 1)>> \o RegexSplit(t, MatchEnd(t, s) + 1)

RECURSIVE StripAll(_)
StripAll(segs) ==
    IF segs = <<>> THEN <<>>
    ELSE IF Strip(Head(segs)) = <<>> THEN StripAll(Tail(segs))
    ELSE <<Strip(Head(segs))>> \o StripAll(Tail(segs))

split_mbox(mbox_content) == StripAll(RegexSplit(mbox_content, 1))

\* str[:n]
Take(s, n) == SubSeq(s, 1, IF Len(s) < n THEN Len(s) ELSE n)

\* c.isalnum() of a one-character token
AlnumTokens == {"x", "y", "N", "a", "b"}

SubjectLimit == 50

RECURSIVE SafeChars(_)
SafeChars(s) ==
    IF s = <<>> THEN <<>>
    ELSE <<IF Head(s) \in AlnumTokens \cup {SP, "-", "_"} THEN Head(s) ELSE "_">>
         \o SafeChars(Tail(s))

\* date.strftime('%Y%m%d_%H%M%S')
StampTokens == <<"S1", "S2", "S3">>

\* a file name without the per-run counter
sanitize_filename_uncounted(subject, date, counter) ==
    LET safe_subject == Take(Strip(SafeChars(subject)), SubjectLimit)
    IN IF subject # <<>> /\ safe_subject # <<>>
       THEN <<StampTokens[date], "_">> \o safe_subject \o <<".eml">>
       ELSE <<StampTokens[date], ".eml">>

sanitize_filename(subject, date, counter) ==
    LET safe_subject == Take(Strip(SafeChars(subject)), SubjectLimit)
    IN IF subject # <<>> /\ safe_subject # <<>>
       THEN <<StampTokens[date], "_">> \o safe_subject
            \o <<"_", ToString(counter), ".eml">>
       ELSE <<StampTokens[date], "_", ToString(counter), ".eml">>

\* get_email_date: the parsed Date header, the current time if there is none
\* or parsing raises
get_email_date(text, now) ==
    LET date_str == MsgGet(text, "Date:")
    IN IF date_str # <<>> /\ parsedate_to_datetime(date_str) # NoDate
       THEN parsedate_to_datetime(date_str)
       ELSE now

\* lines 205-212, 126-148: the splitter is run on the mbox the assembler
\* left; usage error and missing mbox end it with 1
Main0 ==
    /\ pc = "exit3"
    /\ \E a \in {2, 3} : argc' = a
    /\ input_exists' = mbox_exists
    /\ IF argc' # 3 \/ ~mbox_exists
       THEN /\ exit_code' = [exit_code EXCEPT ![0] = 1]
            /\ pc' = "exit0"
            /\ UNCHANGED messages
       ELSE /\ messages' = split_mbox(mbox)
            /\ pc' = "save"
            /\ UNCHANGED exit_code
    /\ UNCHANGED <<mboxVars, save_i, out_dir, processed0, errors0>>
    /\ UNCHANGED <<dedupVars, fixVars>>
    /\ UNCHANGED diskVars

\* lines 156-182: one iteration of the saving loop; save_email_message
\* returns False when writing the file raises
Save0 ==
    /\ pc = "save"
    /\ save_i <= Len(messages)
    /\ \E now \in Dates, saved \in BOOLEAN :
         LET message_content == messages[save_i]
             date == get_email_date(message_content, now)
             subject == MsgGet(message_content, "Subject:")
             filename == sanitize_filename(subject, date, save_i)
         IN IF saved
            THEN /\ out_dir' = Append(out_dir, [filename |-> filename,
                                                content |-> message_content])
                 /\ processed0' = processed0 + 1
                 /\ UNCHANGED errors0
            ELSE /\ errors0' = errors0 + 1
                 /\ UNCHANGED <<out_dir, processed0>>
    /\ save_i' = save_i + 1
    /\ UNCHANGED <<pc, argc, input_exists, exit_code, mboxVars, messages>>
    /\ UNCHANGED <<dedupVars, fixVars>>
    /\ UNCHANGED diskVars

\* lines 184-199, 211-212: convert_to_eml returns True
Finish0 ==
    /\ pc = "save"
    /\ save_i > Len(messages)
    /\ exit_code' = [exit_code EXCEPT ![0] = 0]
    /\ pc' = "exit0"
    /\ UNCHANGED <<argc, input_exists, mboxVars, emlVars>>
    /\ UNCHANGED <<dedupVars, fixVars>>
    /\ UNCHANGED diskVars

Next3 ==
    \/ Main3 \/ Scan3 \/ ScanDone3 \/ Emit3 \/ Finish3
    \/ Main0 \/ Save0 \/ Finish0

\* the assembler run on a directory, then the splitter run on its output
SpecMbox == Init3 /\ [][Next3]_vars

\* ---- the splitter on mbox files whose messages carry subjects

MaxMsgs == 2

\* a message of an mbox file: separator line, headers, body, blank line
MkMail(date_hdr, subject) ==
    create_mbox_separator(1, <<"a@x">>)
    \o (IF date_hdr = <<>> THEN <<>> ELSE <<"Date:", SP>> \o date_hdr \o <<NL>>)
    \o (IF subject = <<>> THEN <<>> ELSE <<"Subject:", SP>> \o subject \o <<NL>>)
    \o <<NL, "x", NL, NL>>

\* a subject of SubjectLimit characters and one more
LongSubject(last) == [i \in 1..(SubjectLimit + 1) |->
                        IF i <= SubjectLimit THEN "x" ELSE last]

MailPool ==
    { MkMail(<<"d1">>, LongSubject("a")),
      MkMail(<<"d1">>, LongSubject("b")),
      MkMail(<<"d1">>, <<>>),
      MkMail(<<>>, <<"/">>),
      MkMail(<<"d1">>, <<"_">>),
      MkMail(<<"d2">>, <<"x", SP, "y">>) }

MboxFiles == { Concat(ms) : ms \in SeqsUpTo(MailPool, MaxMsgs) }

Init0 ==
    /\ pc = "exit3"
    /\ argc = 3
    /\ input_exists = TRUE
    /\ exit_code = [st \in 0..3 |-> -1]
    /\ mbox_exists \in BOOLEAN
    /\ mbox \in IF mbox_exists THEN MboxFiles ELSE {<<>>}
    /\ eml_dir = <<>>
    /\ scan_i = 1
    /\ total_found = 0
    /\ email_files = <<>>
    /\ emit_i = 1
    /\ processed = 0
    /\ errors = 0
    /\ emitted = <<>>
    /\ IdleEml
    /\ IdleDedup
    /\ IdleFix
    /\ FreshDisk

Next0 == Main0 \/ Save0 \/ Finish0

SpecSplit == Init0 /\ [][Next0]_vars

-----------------------------------------------------------------------------
(* C1: convert_to_mbox writes the messages in ascending order of their     *)
(* resolved date: of any two separators written, the earlier written one   *)
(* carries a date less than or equal to the later one's.                   *)
EmittedInDateOrder ==
    \A i, j \in 1..Len(emitted) :
        i < j => emitted[i].date <= emitted[j].date

-----------------------------------------------------------------------------
(* C2: assembling N well-formed non-empty messages and then splitting the  *)
(* result yields exactly N messages, each the original once the quoting of *)
(* "From " lines is undone.  The comparison is made up to the surrounding  *)
(* whitespace that split_mbox strips.                                      *)

\* the inverse of QuoteLine: a line ">From ..." loses its ">"
UnquoteLine(line) ==
    IF Len(line) >= 2 /\ line[1] = ">" /\ line[2] = FromSp THEN Tail(line) ELSE line

RECURSIVE UnquoteLines(_)
UnquoteLines(ls) ==
    IF ls = <<>> THEN <<>> ELSE UnquoteLine(Head(ls)) \o UnquoteLines(Tail(ls))

Unquote(text) == UnquoteLines(Lines(text))

\* every file of the directory is a non-empty message that was read and
\* copied without an error
AllAssembled ==
    /\ Len(eml_dir) >= 1
    /\ Len(email_files) = Len(eml_dir)
    /\ processed = Len(eml_dir)
    /\ \A i \in 1..Len(eml_dir) : Strip(eml_dir[i].text) # <<>>

SplitDone == pc \in {"save", "exit0"} /\ exit_code[0] # 1

RoundTripIdentity ==
    (SplitDone /\ AllAssembled) =>
        /\ Len(messages) = Len(eml_dir)
        /\ \A i \in 1..Len(messages) :
             Unquote(messages[i]) = Strip(eml_dir[email_files[i].eml_path].text)

\* the part of C2 that the code keeps: the number of messages
RoundTripCount ==
    (SplitDone /\ AllAssembled) => Len(messages) = Len(eml_dir)

-----------------------------------------------------------------------------
(* 2-delete_duplicates.py                                                  *)

MaxTree == 3       \* files in a source tree

\* str.lower() of a token; tokens without a cased letter are their own image
UpperTokens == {"ID1", "A@X"}
LowerTok(t) ==
    CASE t = "ID1" -> "id1"
      [] t = "A@X" -> "a@x"
      [] OTHER -> t

RECURSIVE Lower(_)
Lower(s) == IF s = <<>> THEN <<>> ELSE <<LowerTok(Head(s))>> \o Lower(Tail(s))

\* the Unicode replacement character U+FFFD
Repl == "U+FFFD"

\* content.count('�')
RECURSIVE CountRepl(_)
CountRepl(s) ==
    IF s = <<>> THEN 0
    ELSE (IF Head(s) = Repl THEN 1 ELSE 0) + CountRepl(Tail(s))

\* the text of a message with the given header values; an empty value
\* leaves the header out
MkEml(message_id, from_hdr, to_hdr, date_hdr, body) ==
    (IF message_id = <<>> THEN <<>>
     ELSE <<"Message-ID:", SP>> \o message_id \o <<NL>>)
    \o (IF from_hdr = <<>> THEN <<>> ELSE <<"From:", SP>> \o from_hdr \o <<NL>>)
    \o (IF to_hdr = <<>> THEN <<>> ELSE <<"To:", SP>> \o to_hdr \o <<NL>>)
    \o (IF date_hdr = <<>> THEN <<>> ELSE <<"Date:", SP>> \o date_hdr \o <<NL>>)
    \o <<NL>> \o body

\* the files the model explores: relative path (the suffix .eml, common to
\* all, is left out), content, and readable, FALSE for a file whose open()
\* raises
DedupPool ==
    { [path |-> <<"s", "/", "a">>, readable |-> TRUE,
       content |-> MkEml(<<"id1">>, <<"a@x">>, <<"b@y">>, <<"d1">>, <<"x", NL>>)],
      [path |-> <<"b">>, readable |-> TRUE,
       content |-> MkEml(<<"ID1", SP>>, <<"b@y">>, <<"a@x">>, <<"d2">>,
                         <<Repl, "x", Repl, NL>>)],
      [path |-> <<"c">>, readable |-> TRUE,
       content |-> MkEml(<<"id1">>, <<"a@x">>, <<"b@y">>, <<"d1">>, <<"y", NL>>)],
      [path |-> <<"d">>, readable |-> TRUE,
       content |-> MkEml(<<"id1">>, <<"a@x">>, <<"b@y">>, <<"d1">>, <<"x", NL>>)],
      [path |-> <<"e">>, readable |-> TRUE,
       content |-> MkEml(<<>>, <<"a@x">>, <<"b@y">>, <<"d1">>, <<Repl, NL>>)],
      [path |-> <<"s", "/", "f">>, readable |-> TRUE,
       content |-> MkEml(<<>>, <<"A@X", SP>>, <<"b@y">>, <<"d1", SP>>, <<"x", NL>>)],
      [path |-> <<"g">>, readable |-> TRUE,
       content |-> MkEml(<<>>, <<"a@x">>, <<"b@y">>, <<"d2">>, <<"x", NL>>)],
      [path |-> <<"h">>, readable |-> FALSE,
       content |-> MkEml(<<"id1">>, <<"a@x">>, <<"b@y">>, <<"d1">>, <<"x", NL>>)] }

SourceRoot(r) == IF r = 1 THEN <<"i", "n">> ELSE <<"o", "u", "t">>

\* str(path) of a file of the tree of run r
PathStr(r, rel) == SourceRoot(r) \o <<"/">> \o rel

\* the source trees: up to MaxTree files, pairwise distinct, in any
\* enumeration order
SourceTrees ==
    UNION { { t \in [1..k -> DedupPool] :
                \A i, j \in 1..k : i # j => t[i] # t[j] }
            : k \in 0..MaxTree }

\* get_email_key that compares Message-IDs case-sensitively
get_email_key_cased(f) ==
    LET message_id == Strip(MsgGet(f.content, "Message-ID:"))
        from_addr == Strip(Lower(MsgGet(f.content, "From:")))
        to_addr == Strip(Lower(MsgGet(f.content, "To:")))
        date == Strip(MsgGet(f.content, "Date:"))
    IN IF ~f.readable THEN <<>>
       ELSE IF message_id # <<>> THEN message_id
       ELSE from_addr \o <<"|">> \o to_addr \o <<"|">> \o date

\* get_email_key: the key, or <<>> where the function returns (None, None)
get_email_key(f) ==
    LET message_id == Strip(MsgGet(f.content, "Message-ID:"))
        from_addr == Strip(Lower(MsgGet(f.content, "From:")))
        to_addr == Strip(Lower(MsgGet(f.content, "To:")))
        date == Strip(MsgGet(f.content, "Date:"))
    IN IF ~f.readable THEN <<>>
       ELSE IF message_id # <<>> THEN Lower(message_id)
       ELSE from_addr \o <<"|">> \o to_addr \o <<"|">> \o date

\* the sort key of select_best_version
VersionScore(r, f) ==
    [repl |-> CountRepl(f.content), plen |-> Len(PathStr(r, f.path))]

\* the sort key compared with the path length first
ScoreLessPathFirst(a, b) ==
    \/ a.plen < b.plen
    \/ a.plen = b.plen /\ a.repl < b.repl

ScoreLess(a, b) ==
    \/ a.repl < b.repl
    \/ a.repl = b.repl /\ a.plen < b.plen

\* min(duplicates, key=...): the first member no other member is less than
RECURSIVE MinFrom(_, _, _)
MinFrom(r, best, rest) ==
    IF rest = <<>> THEN best
    ELSE IF ScoreLess(VersionScore(r, Head(rest)), VersionScore(r, best))
         THEN MinFrom(r, Head(rest), Tail(rest))
         ELSE MinFrom(r, best, Tail(rest))

select_best_version(r, files) == MinFrom(r, Head(files), Tail(files))

\* a dictionary that never finds an existing key
AddToGroupAlwaysNew(groups, key, f) ==
    Append(groups, [key |-> key, files |-> <<f>>])

\* duplicates[key].append(file) on the insertion-ordered dictionary
AddToGroup(groups, key, f) ==
    IF \E g \in 1..Len(groups) : groups[g].key = key
    THEN [g \in 1..Len(groups) |->
            IF groups[g].key = key
            THEN [groups[g] EXCEPT !.files = Append(@, f)]
            ELSE groups[g]]
    ELSE Append(groups, [key |-> key, files |-> <<f>>])

\* a copy whose relative path is taken from the parent of source_path
CopyIntoNested(tree, f) ==
    { o \in tree : o.path # <<"s", "/">> \o f.path }
    \cup {[path |-> <<"s", "/">> \o f.path, content |-> f.content]}

\* shutil.copy2 to output_root / rel_path
CopyInto(tree, f) ==
    { o \in tree : o.path # f.path } \cup {[path |-> f.path, content |-> f.content]}

Start2 ==
    /\ pc = "main2"
    /\ argc \in 1..3
    /\ input_exists \in BOOLEAN
    /\ exit_code = [st \in 0..3 |-> -1]
    /\ run = 1
    /\ src_tree \in IF input_exists THEN SourceTrees ELSE {<<>>}
    /\ an_i = 1
    /\ total_files = 0
    /\ duplicates = <<>>
    /\ grp_i = 1
    /\ kept_files = 0
    /\ duplicate_groups = 0
    /\ total_duplicates = 0
    /\ out_tree = {}
    /\ chosen = <<>>
    /\ first_run = <<>>
    /\ IdleMbox
    /\ IdleEml
    /\ IdleFix

Init2 == Start2 /\ FreshDisk

\* lines 158-164, 88-95: a usage error ends the script with 1; when the
\* source path does not exist process_duplicates prints and returns, and the
\* script ends normally
Main2 ==
    /\ pc = "main2"
    /\ IF argc # 2
       THEN /\ exit_code' = [exit_code EXCEPT ![2] = 1]
            /\ pc' = "exit2"
       ELSE IF ~input_exists
       THEN /\ exit_code' = [exit_code EXCEPT ![2] = 0]
            /\ pc' = "exit2"
       ELSE /\ pc' = "analyze"
            /\ UNCHANGED exit_code
    /\ UNCHANGED <<argc, input_exists, dedupVars, mboxVars, emlVars, fixVars>>
    /\ output_root' = IF argc = 2 /\ input_exists
                      THEN setup_output_directory(existing) ELSE output_root
    /\ existing' = IF argc = 2 /\ input_exists
                   THEN existing \cup {output_root'} ELSE existing
    /\ UNCHANGED <<before, reruns>>

\* lines 104-111: one iteration of the analysing loop
Analyze2 ==
    /\ pc = "analyze"
    /\ an_i <= Len(src_tree)
    /\ total_files' = total_files + 1
    /\ LET key == get_email_key(src_tree[an_i])
       IN duplicates' = IF key # <<>>
                        THEN AddToGroup(duplicates, key, src_tree[an_i])
                        ELSE duplicates
    /\ an_i' = an_i + 1
    /\ UNCHANGED <<pc, argc, input_exists, exit_code, run, src_tree, grp_i,
                   kept_files, duplicate_groups, total_duplicates, out_tree,
                   chosen, first_run, mboxVars, emlVars, fixVars>>
    /\ UNCHANGED diskVars

AnalyzeDone2 ==
    /\ pc = "analyze"
    /\ an_i > Len(src_tree)
    /\ pc' = "groups"
    /\ UNCHANGED <<argc, input_exists, exit_code, dedupVars, mboxVars, emlVars,
                   fixVars>>
    /\ UNCHANGED diskVars

\* lines 118-147: one iteration of the loop over the groups
Group2 ==
    /\ pc = "groups"
    /\ grp_i <= Len(duplicates)
    /\ LET files == duplicates[grp_i].files
           best == IF Len(files) > 1 THEN select_best_version(run, files)
                   ELSE files[1]
       IN /\ duplicate_groups' = duplicate_groups + (IF Len(files) > 1 THEN 1 ELSE 0)
          /\ total_duplicates' =
                total_duplicates + (IF Len(files) > 1 THEN Len(files) - 1 ELSE 0)
          /\ out_tree' = CopyInto(out_tree, best)
          /\ chosen' = Append(chosen, [files |-> files, best |-> best])
    /\ kept_files' = kept_files + 1
    /\ grp_i' = grp_i + 1
    /\ UNCHANGED <<pc, argc, input_exists, exit_code, run, src_tree, an_i,
                   total_files, duplicates, first_run, mboxVars, emlVars, fixVars>>
    /\ UNCHANGED diskVars

\* lines 149-156, 164: the summary; the script ends normally
Finish2 ==
    /\ pc = "groups"
    /\ grp_i > Len(duplicates)
    /\ exit_code' = [exit_code EXCEPT ![2] = 0]
    /\ pc' = "exit2"
    /\ UNCHANGED <<argc, input_exists, dedupVars, mboxVars, emlVars, fixVars>>
    /\ UNCHANGED diskVars

\* every enumeration order of a set of files
Orders(S) ==
    { t \in [1..Cardinality(S) -> S] : \A i, j \in 1..Cardinality(S) :
                                          i # j => t[i] # t[j] }

\* the script is run again, on the output tree of the first run, which
\* rglob enumerates in some order
Rerun2 ==
    /\ pc = "exit2"
    /\ run = 1
    /\ exit_code[2] = 0
    /\ input_exists
    /\ run' = 2
    /\ first_run' = <<[src |-> src_tree, out |-> out_tree]>>
    /\ \E t \in Orders(out_tree) :
         src_tree' = [i \in 1..Len(t) |->
                        [path |-> t[i].path, content |-> t[i].content,
                         readable |-> TRUE]]
    /\ pc' = "analyze"
    /\ exit_code' = [exit_code EXCEPT ![2] = -1]
    /\ an_i' = 1
    /\ total_files' = 0
    /\ duplicates' = <<>>
    /\ grp_i' = 1
    /\ kept_files' = 0
    /\ duplicate_groups' = 0
    /\ total_duplicates' = 0
    /\ out_tree' = {}
    /\ chosen' = <<>>
    /\ UNCHANGED <<argc, input_exists, mboxVars, emlVars, fixVars>>
    /\ UNCHANGED diskVars

Next2 ==
    \/ Main2 \/ Analyze2 \/ AnalyzeDone2 \/ Group2 \/ Finish2 \/ Rerun2

SpecDedup == Init2 /\ [][Next2]_vars

-----------------------------------------------------------------------------
\* a run of the deduplicator that went through all its groups
DedupFinished == pc = "exit2" /\ argc = 2 /\ input_exists /\ exit_code[2] = 0

Analysed == pc = "groups" \/ DedupFinished

TrimLower(v) == Lower(Strip(v))

\* the condition of C5 on two files
SameIdentity(f, g) ==
    LET mf == TrimLower(MsgGet(f.content, "Message-ID:"))
        mg == TrimLower(MsgGet(g.content, "Message-ID:"))
    IN \/ mf # <<>> /\ mf = mg
       \/ /\ mf = <<>> /\ mg = <<>>
          /\ TrimLower(MsgGet(f.content, "From:")) = TrimLower(MsgGet(g.content, "From:"))
          /\ TrimLower(MsgGet(f.content, "To:")) = TrimLower(MsgGet(g.content, "To:"))
          /\ Strip(MsgGet(f.content, "Date:")) = Strip(MsgGet(g.content, "Date:"))

InOutput(f) == \E o \in out_tree : o.path = f.path

InGroup(g, f) == \E m \in 1..Len(duplicates[g].files) : duplicates[g].files[m] = f

(* C5: two files whose Message-IDs are non-empty and equal after trimming  *)
(* and lowercasing, or that both lack a Message-ID and agree on trimmed    *)
(* lowercased From, To and trimmed Date, get the same key whatever their   *)
(* bodies, are put in one group, and at most one of them is written.       *)
DedupKeyEquivalence ==
    \A i, j \in 1..Len(src_tree) :
        LET f == src_tree[i]
            g == src_tree[j]
        IN (i # j /\ f.readable /\ g.readable /\ SameIdentity(f, g)) =>
             /\ get_email_key(f) = get_email_key(g)
             /\ Analysed => \E k \in 1..Len(duplicates) : InGroup(k, f) /\ InGroup(k, g)
             /\ DedupFinished => ~(InOutput(f) /\ InOutput(g))

\* two files with Message-IDs that differ in case and padding and with
\* different bodies were grouped, and exactly one of them was written
DedupKeyWitness ==
    /\ DedupFinished
    /\ \E i, j \in 1..Len(src_tree) :
         LET f == src_tree[i]
             g == src_tree[j]
         IN /\ i # j /\ f.readable /\ g.readable /\ SameIdentity(f, g)
            /\ MsgGet(f.content, "Message-ID:") # MsgGet(g.content, "Message-ID:")
            /\ MsgGet(f.content, "Message-ID:") # <<>>
            /\ InOutput(f) /\ ~InOutput(g)

(* C6: the member select_best_version returns is a member of the group     *)
(* whose pair (replacement characters, path length) is lexicographically   *)
(* minimal: no member has fewer replacement characters, and none with as   *)
(* many has a shorter path.                                                *)
SelectionRule ==
    \A c \in 1..Len(chosen) :
        LET files == chosen[c].files
            best == chosen[c].best
        IN /\ \E m \in 1..Len(files) : files[m] = best
           /\ \A m \in 1..Len(files) :
                \/ CountRepl(best.content) < CountRepl(files[m].content)
                \/ /\ CountRepl(best.content) = CountRepl(files[m].content)
                   /\ Len(PathStr(run, best.path)) <= Len(PathStr(run, files[m].path))

\* a member with fewer replacement characters was chosen over a member
\* with a shorter path
SelectionWitness ==
    \E c \in 1..Len(chosen) :
        \E m \in 1..Len(chosen[c].files) :
            /\ CountRepl(chosen[c].best.content) < CountRepl(chosen[c].files[m].content)
            /\ Len(PathStr(run, chosen[c].best.path))
                 > Len(PathStr(run, chosen[c].files[m].path))

\* the files of the source tree that produced a key, and their keys
KeyedFiles == { i \in 1..Len(src_tree) : get_email_key(src_tree[i]) # <<>> }
InputKeys == { get_email_key(src_tree[i]) : i \in KeyedFiles }
OutputKey(o) == get_email_key([path |-> o.path, content |-> o.content, readable |-> TRUE])

(* C7: after process_duplicates the output tree holds exactly one file     *)
(* per identity key of the input, each the selected member of its group at *)
(* that member's relative path; kept_files is the number of groups and     *)
(* kept_files + total_duplicates the number of files that produced a key.  *)
OneOutputPerGroup ==
    DedupFinished =>
        /\ Cardinality(out_tree) = Cardinality(InputKeys)
        /\ \A k \in InputKeys : Cardinality({ o \in out_tree : OutputKey(o) = k }) = 1
        /\ Len(chosen) = Len(duplicates)
        /\ \A g \in 1..Len(chosen) :
             /\ chosen[g].files = duplicates[g].files
             /\ [path |-> chosen[g].best.path, content |-> chosen[g].best.content]
                   \in out_tree
        /\ \A o \in out_tree :
             \E g \in 1..Len(chosen) :
                 /\ o.path = chosen[g].best.path
                 /\ o.content = chosen[g].best.content
        /\ kept_files = Cardinality(InputKeys)
        /\ kept_files + total_duplicates = Cardinality(KeyedFiles)

\* a finished run that removed a duplicate and met a file without key
OneOutputWitness ==
    /\ DedupFinished
    /\ total_duplicates >= 1
    /\ kept_files >= 1
    /\ Cardinality(KeyedFiles) < Len(src_tree)

(* C8: a run of process_duplicates on the output tree of a previous run    *)
(* finds only groups of one member, counts no duplicate group and no       *)
(* duplicate, and writes a tree with the same relative paths and contents. *)
IdempotentDedup ==
    /\ (run = 2 /\ Analysed) =>
          \A g \in 1..Len(duplicates) : Len(duplicates[g].files) = 1
    /\ (run = 2 /\ DedupFinished) =>
          /\ duplicate_groups = 0
          /\ total_duplicates = 0
          /\ kept_files = Len(src_tree)
          /\ out_tree = first_run[1].out

\* the second run finished on the output of a first run that had removed
\* duplicates and kept more than one file
IdempotentWitness ==
    /\ run = 2 /\ DedupFinished
    /\ Cardinality(out_tree) >= 2
    /\ Len(first_run[1].src) > Cardinality(first_run[1].out)

-----------------------------------------------------------------------------
(* 1-email_date_fixer.py: parse_date_header                                *)
(*                                                                         *)
(* A resolved date is a tuple <<year, month, day, hour, minute, second>>;  *)
(* None is the empty tuple.  A scanned text (a body part, a header value)  *)
(* is the sequence of its date-like substrings, left to right: each item   *)
(* names the pattern family that matches it and the date the lenient       *)
(* parser makes of it, None if it makes none.  A file name is a sequence   *)
(* of characters.                                                          *)
None == <<>>

\* lines 60-71: try_parse_date of a Date header value.  kind "rfc": the
\* RFC-822 parser reads it; "fuzzy": only the lenient parser would;
\* "junk": neither does.  parsedate_to_datetime raises on what it cannot
\* read, and the bare except returns None before the lenient parser runs.
try_parse_date(date_hdr) ==
    IF date_hdr.kind = "rfc" THEN date_hdr.date ELSE None

\* lines 95-114: the pattern families, in the order of date_patterns
Families == 1..7

\* the matches of one pattern, left to right
RECURSIVE MatchesOf(_, _)
MatchesOf(text, fam) ==
    IF text = <<>> THEN <<>>
    ELSE (IF Head(text).fam = fam THEN <<Head(text)>> ELSE <<>>)
         \o MatchesOf(Tail(text), fam)

\* lines 120-131: the first match of the pattern that parses
RECURSIVE FirstParsed(_)
FirstParsed(matches) ==
    IF matches = <<>> THEN None
    ELSE IF Head(matches).date # None THEN Head(matches).date
    ELSE FirstParsed(Tail(matches))

\* "if parsed_date: return parsed_date", and otherwise the next step
OrElse(parsed_date, next_step) == IF parsed_date # None THEN parsed_date ELSE next_step

\* lines 117-132
RECURSIVE SearchFrom(_, _)
SearchFrom(text, fam) ==
    IF fam \notin Families THEN None
    ELSE OrElse(FirstParsed(MatchesOf(text, fam)), SearchFrom(text, fam + 1))

\* a scan that returns the leftmost parsable match of any pattern
search_content_leftmost(text) == FirstParsed(text)

search_content(text) == SearchFrom(text, 1)

TextTypes == {"text/plain", "text/html"}

\* lines 135-152: the body scan.  Of a multipart message the text/plain and
\* text/html parts are scanned in walk order; any other message is scanned
\* whole.  The payload is decoded as UTF-8 with errors='replace', which
\* never raises.
RECURSIVE ScanParts(_)
ScanParts(parts) ==
    IF parts = <<>> THEN None
    ELSE OrElse(IF Head(parts).ctype \in TextTypes
                THEN search_content(Head(parts).text) ELSE None,
                ScanParts(Tail(parts)))

BodyScan(f) ==
    IF f.multipart THEN ScanParts(f.parts) ELSE search_content(f.parts[1].text)

\* lines 155-160: Subject, Message-ID, X-Mail-Created-Date, in that order
RECURSIVE ScanHeaders(_)
ScanHeaders(values) ==
    IF values = <<>> THEN None
    ELSE OrElse(search_content(Head(values)), ScanHeaders(Tail(values)))

HeaderScan(f) == ScanHeaders(<<f.subject, f.message_id, f.created>>)

\* ---- lines 163-207: the file name scan

DigitChars == <<"0", "1", "2", "3", "4", "5", "6", "7", "8", "9">>
IsDigit(c) == \E i \in 1..10 : DigitChars[i] = c
DigitVal(c) == (CHOOSE i \in 1..10 : DigitChars[i] = c) - 1

\* int() of a string of digits
RECURSIVE Num(_)
Num(s) == IF s = <<>> THEN 0 ELSE 10 * Num(SubSeq(s, 1, Len(s) - 1)) + DigitVal(s[Len(s)])

\* A regular expression of the two lists is a sequence of elements: a
\* group of n digits, (\d{n}), or one literal character.
G(n) == [k |-> "group", n |-> n, c |-> ""]
C(c) == [k |-> "char", n |-> 1, c |-> c]

RECURSIVE PatLen(_)
PatLen(pat) == IF pat = <<>> THEN 0 ELSE Head(pat).n + PatLen(Tail(pat))

RECURSIVE MatchesAt(_, _, _)
MatchesAt(name, pos, pat) ==
    IF pat = <<>> THEN TRUE
    ELSE /\ pos + Head(pat).n - 1 <= Len(name)
         /\ IF Head(pat).k = "group"
            THEN \A i \in pos..(pos + Head(pat).n - 1) : IsDigit(name[i])
            ELSE name[pos] = Head(pat).c
         /\ MatchesAt(name, pos + Head(pat).n, Tail(pat))

\* match.groups() of the match at pos
RECURSIVE GroupsAt(_, _, _)
GroupsAt(name, pos, pat) ==
    IF pat = <<>> THEN <<>>
    ELSE (IF Head(pat).k = "group"
          THEN <<SubSeq(name, pos, pos + Head(pat).n - 1)>> ELSE <<>>)
         \o GroupsAt(name, pos + Head(pat).n, Tail(pat))

\* re.search: the position of the leftmost match, 0 if there is none
RECURSIVE SearchPos(_, _, _)
SearchPos(name, pat, pos) ==
    IF pos > Len(name) THEN 0
    ELSE IF MatchesAt(name, pos, pat) THEN pos
    ELSE SearchPos(name, pat, pos + 1)

\* A strptime format is a sequence of directives and literal characters.
Directives == {"%Y", "%y", "%m", "%d", "%H", "%M", "%S"}
Width(el) == IF el = "%Y" THEN 4 ELSE IF el \in Directives THEN 2 ELSE 1

\* fmt[2], the third character of the format string: the first directive
\* takes two characters, so it is the first character of the second element
FmtChar2(fmt) == IF fmt[2] \in Directives THEN "%" ELSE fmt[2]

\* the fields strptime reads from date_str, or <<>> when date_str does not
\* have the shape of fmt (ValueError); a field is <<directive, number>>, and
\* the last one marks the end of the string
RECURSIVE FieldsFrom(_, _, _)
FieldsFrom(date_str, fmt, acc) ==
    IF fmt = <<>>
    THEN IF date_str = <<>> THEN Append(acc, <<"end", 0>>) ELSE <<>>
    ELSE IF Len(date_str) < Width(Head(fmt)) THEN <<>>
    ELSE IF Head(fmt) \in Directives
    THEN IF \A i \in 1..Width(Head(fmt)) : IsDigit(date_str[i])
         THEN FieldsFrom(SubSeq(date_str, Width(Head(fmt)) + 1, Len(date_str)),
                         Tail(fmt),
                         Append(acc, <<Head(fmt),
                                      Num(SubSeq(date_str, 1, Width(Head(fmt))))>>))
         ELSE <<>>
    ELSE IF date_str[1] = Head(fmt)
         THEN FieldsFrom(Tail(date_str), Tail(fmt), acc)
         ELSE <<>>

Fields(date_str, fmt) == FieldsFrom(date_str, fmt, <<>>)

HasField(fs, dir) == \E i \in 1..Len(fs) : fs[i][1] = dir

FieldOf(fs, dir, default) ==
    IF HasField(fs, dir)
    THEN fs[CHOOSE i \in 1..Len(fs) : fs[i][1] = dir][2]
    ELSE default

IsLeap(y) == (y % 4 = 0 /\ y % 100 # 0) \/ y % 400 = 0
DaysIn(y, m) ==
    IF m = 2 THEN (IF IsLeap(y) THEN 29 ELSE 28)
    ELSE IF m \in {4, 6, 9, 11} THEN 30 ELSE 31

\* %y: 00-68 are 2000-2068, 69-99 are 1969-1999
Century(yy) == IF yy < 69 THEN 2000 + yy ELSE 1900 + yy

YearOf(fs) ==
    IF HasField(fs, "%y") THEN Century(FieldOf(fs, "%y", 0)) ELSE FieldOf(fs, "%Y", 1900)

\* datetime(y, m, d, H, M, S), None where it raises ValueError
MakeDate(y, m, d, H, M, S) ==
    IF /\ y >= 1 /\ m \in 1..12 /\ d \in 1..DaysIn(y, m)
       /\ H \in 0..23 /\ M \in 0..59 /\ S \in 0..59
    THEN <<y, m, d, H, M, S>>
    ELSE None

DateOfFields(fs) ==
    IF fs = <<>> THEN None
    ELSE MakeDate(YearOf(fs), FieldOf(fs, "%m", 1), FieldOf(fs, "%d", 1),
                  FieldOf(fs, "%H", 0), FieldOf(fs, "%M", 0), FieldOf(fs, "%S", 0))

\* datetime.strptime(date_str, fmt): the date, None where it raises
\* ValueError
strptime(date_str, fmt) == DateOfFields(Fields(date_str, fmt))

\* sep.join(groups)
RECURSIVE Join(_, _)
Join(groups, sep) ==
    IF groups = <<>> THEN <<>>
    ELSE IF Len(groups) = 1 THEN Head(groups)
    ELSE Head(groups) \o <<sep>> \o Join(Tail(groups), sep)

\* lines 165-168
filename_patterns ==
    << [pattern |-> <<G(8), C("_"), G(6)>>,
        fmt |-> <<"%Y", "%m", "%d", "_", "%H", "%M", "%S">>],
       [pattern |-> <<G(14)>>,
        fmt |-> <<"%Y", "%m", "%d", "%H", "%M", "%S">>] >>

\* lines 183-193
date_only_patterns ==
    << [pattern |-> <<G(4), C("-"), G(2), C("-"), G(2)>>, fmt |-> <<"%Y", "-", "%m", "-", "%d">>],
       [pattern |-> <<G(4), G(2), G(2)>>, fmt |-> <<"%Y", "%m", "%d">>],
       [pattern |-> <<G(2), G(2), G(2)>>, fmt |-> <<"%y", "%m", "%d">>],
       [pattern |-> <<G(2), C("-"), G(2), C("-"), G(4)>>, fmt |-> <<"%d", "-", "%m", "-", "%Y">>],
       [pattern |-> <<G(2), G(2), G(4)>>, fmt |-> <<"%d", "%m", "%Y">>],
       [pattern |-> <<G(2), C("/"), G(2), C("/"), G(4)>>, fmt |-> <<"%d", "/", "%m", "/", "%Y">>],
       [pattern |-> <<G(2), C("."), G(2), C("."), G(4)>>, fmt |-> <<"%d", ".", "%m", ".", "%Y">>],
       [pattern |-> <<G(4), C("/"), G(2), C("/"), G(2)>>, fmt |-> <<"%Y", "/", "%m", "/", "%d">>],
       [pattern |-> <<G(4), C("."), G(2), C("."), G(2)>>, fmt |-> <<"%Y", ".", "%m", ".", "%d">>] >>

\* lines 172-176: date_str of the match at pos and its parse
TimedAt(name, p, pos) ==
    IF pos = 0 THEN None
    ELSE strptime(Join(GroupsAt(name, pos, p.pattern), "_"), p.fmt)

\* lines 170-180: one pattern with a time component tried on the name
TimedTry(name, p) == TimedAt(name, p, SearchPos(name, p.pattern, 1))

\* line 202: parsed_date.replace(hour=0, minute=0, second=0)
Midnight(parsed_date) ==
    IF parsed_date = None THEN None
    ELSE <<parsed_date[1], parsed_date[2], parsed_date[3], 0, 0, 0>>

\* lines 197-202: the groups are joined with fmt[2]
DateOnlyAt(name, p, pos) ==
    IF pos = 0 THEN None
    ELSE Midnight(strptime(Join(GroupsAt(name, pos, p.pattern), FmtChar2(p.fmt)), p.fmt))

\* lines 195-207: one date-only pattern tried on the name
DateOnlyTry(name, p) == DateOnlyAt(name, p, SearchPos(name, p.pattern, 1))

RECURSIVE FirstTimed(_, _)
FirstTimed(name, ps) ==
    IF ps = <<>> THEN None
    ELSE OrElse(TimedTry(name, Head(ps)), FirstTimed(name, Tail(ps)))

RECURSIVE FirstDateOnly(_, _)
FirstDateOnly(name, ps) ==
    IF ps = <<>> THEN None
    ELSE OrElse(DateOnlyTry(name, Head(ps)), FirstDateOnly(name, Tail(ps)))

FilenameScan(f) ==
    IF f.name = <<>> THEN None
    ELSE OrElse(FirstTimed(f.name, filename_patterns),
                FirstDateOnly(f.name, date_only_patterns))

\* lines 84-87: the Date header, when there is one
HeaderTry(f) == IF f.date_hdr.kind # "none" THEN try_parse_date(f.date_hdr) ELSE None

\* a chain that dates an unresolvable message with the current time
parse_date_header_or_now(f) ==
    OrElse(HeaderTry(f), OrElse(BodyScan(f), OrElse(HeaderScan(f),
           OrElse(FilenameScan(f), <<2026, 11, 1, 12, 0, 0>>))))

\* a chain that scans the body before it looks at the Date header
parse_date_header_body_first(f) ==
    OrElse(BodyScan(f), OrElse(HeaderTry(f), OrElse(HeaderScan(f), FilenameScan(f))))

\* a chain that consults the file name before the header values
parse_date_header_name_first(f) ==
    OrElse(HeaderTry(f), OrElse(BodyScan(f), OrElse(FilenameScan(f), HeaderScan(f))))

\* lines 84-209: the fallback chain; None when every step fails
parse_date_header(f) ==
    OrElse(HeaderTry(f), OrElse(BodyScan(f), OrElse(HeaderScan(f), FilenameScan(f))))

\* ---- lines 215-251, 331-340: decoding the body of a single-part message
\*
\* The payload bytes are "ascii", "utf8" (valid UTF-8 beyond ASCII),
\* "latin-f8" (invalid as UTF-8, with the byte 0xF8) or "latin" (invalid as
\* UTF-8, without it).  The declared charset is "none", a codec name, or
\* "x-unknown", a name Python has no codec for.
Codecs == {"utf-8", "iso-8859-1", "us-ascii"}
PayloadKinds == {"ascii", "utf8", "latin-f8", "latin"}

\* does bytes.decode(codec) return
CodecDecodes(codec, bytes) ==
    CASE codec = "us-ascii" -> bytes = "ascii"
      [] codec = "utf-8" -> bytes \in {"ascii", "utf8"}
      [] codec = "iso-8859-1" -> TRUE

\* the outcome of a decoding step: the codec that decoded, or the
\* exception that escapes
Decoded(codec) == [raised |-> "", codec |-> codec]
Raised(exc) == [raised |-> exc, codec |-> ""]

\* lines 240-247: utf-8, iso-8859-1, windows-1252, cp1252 in order;
\* iso-8859-1 decodes every byte string
EncodingList(bytes) ==
    IF CodecDecodes("utf-8", bytes) THEN Decoded("utf-8") ELSE Decoded("iso-8859-1")

try_decode_with_encodings(bytes, declared_charset) ==
    IF bytes = "latin-f8" THEN Decoded("iso-8859-1")
    ELSE IF declared_charset = "none" THEN EncodingList(bytes)
    ELSE IF declared_charset \notin Codecs THEN Raised("LookupError")
    ELSE IF CodecDecodes(declared_charset, bytes) THEN Decoded(declared_charset)
    ELSE EncodingList(bytes)

\* lines 331-339
DecodeBody(f) ==
    IF f.charset = "none" THEN try_decode_with_encodings(f.bytes, "none")
    ELSE IF f.charset \notin Codecs THEN Raised("LookupError")
    ELSE IF CodecDecodes(f.charset, f.bytes) THEN Decoded(f.charset)
    ELSE try_decode_with_encodings(f.bytes, f.charset)

\* the headers of the input message, <<name, value>> in file order
InputHeaders(f) ==
    (IF f.date_hdr.kind # "none" THEN << <<"Date", f.date_hdr>> >> ELSE <<>>)
    \o (IF f.subject # <<>> THEN << <<"Subject", f.subject>> >> ELSE <<>>)
    \o (IF f.message_id # <<>> THEN << <<"Message-ID", f.message_id>> >> ELSE <<>>)
    \o (IF f.created # <<>> THEN << <<"X-Mail-Created-Date", f.created>> >> ELSE <<>>)
    \o (IF f.multipart THEN << <<"Content-Type", "multipart/mixed">> >>
        ELSE IF f.charset # "none" THEN << <<"Content-Type", f.charset>> >>
        ELSE <<>>)

HasHeader(headers, name) == \E k \in 1..Len(headers) : headers[k][1] = name

\* msg.get(name, failobj): the value of the first header of that name
Get(f, name, failobj) ==
    IF HasHeader(InputHeaders(f), name)
    THEN InputHeaders(f)[CHOOSE k \in 1..Len(InputHeaders(f)) :
                            /\ InputHeaders(f)[k][1] = name
                            /\ \A j \in 1..(k - 1) : InputHeaders(f)[j][1] # name][2]
    ELSE failobj

\* line 282: email.utils.formatdate of the resolved date
formatdate(original_date) == <<"formatdate", original_date>>

\* lines 285-323: the assignments new_msg[name] = value, in order; each
\* appends a header
StandardHeaders(f, original_date) ==
    << <<"From", Get(f, "From", "")>>,
       <<"To", Get(f, "To", "")>>,
       <<"Subject", Get(f, "Subject", "")>>,
       <<"Message-ID", Get(f, "Message-ID", "")>>,
       <<"Date", formatdate(original_date)>>,
       <<"Content-Type", Get(f, "Content-Type", "text/plain; charset=\"UTF-8\"")>>,
       <<"MIME-Version", "1.0">>,
       <<"Content-Transfer-Encoding", Get(f, "Content-Transfer-Encoding", "7bit")>>,
       <<"X-MS-Exchange-Organization-MessageDirectionality", "Incoming">>,
       <<"X-MS-Exchange-Organization-AuthAs", "Internal">>,
       <<"X-MS-Exchange-Organization-AuthSource", "mail.protection.outlook.com">>,
       <<"X-MS-Exchange-Organization-Network-Message-Id",
         <<original_date, Get(f, "Message-ID", "unknown")>> >>,
       <<"Received", <<"mailbox.outlook.com", formatdate(original_date)>> >>,
       <<"Received", <<"mail.protection.outlook.com", formatdate(original_date)>> >>,
       <<"Received", <<"exchange.outlook.com", formatdate(original_date)>> >> >>

\* a rebuilt message that starts out with the headers of the input
OutputHeadersOnInput(f, original_date) ==
    InputHeaders(f) \o StandardHeaders(f, original_date)

\* lines 277-323: the headers of new_msg, which starts out empty
OutputHeaders(f, original_date) == StandardHeaders(f, original_date)

\* lines 277-347: the message written for a resolved date and a decoded body
Rebuilt(f, original_date, body) ==
    IF original_date = None \/ body.raised # ""
    THEN [ok |-> FALSE, date |-> None, headers |-> <<>>, codec |-> ""]
    ELSE [ok |-> TRUE, date |-> original_date,
          headers |-> OutputHeaders(f, original_date), codec |-> body.codec]

\* process_eml_file: what it writes, ok FALSE where it returns False
process_eml_file(f) ==
    Rebuilt(f, parse_date_header(f), IF f.multipart THEN Decoded("") ELSE DecodeBody(f))

\* ---- the input folders the model explores

D1 == <<2021, 11, 1, 20, 0, 0>>
D2 == <<2019, 7, 15, 0, 0, 0>>
D3 == <<2020, 1, 1, 0, 0, 0>>

Item(fam, date) == [fam |-> fam, date |-> date]
Hdr(kind, date) == [kind |-> kind, date |-> date]
Part(ctype, text) == [ctype |-> ctype, text |-> text]

\* file names; the token ".eml" stands for the four characters of the suffix
NamePlain == <<"x", ".eml">>
NameTimed == <<"2", "0", "2", "0", "0", "1", "0", "1", "_", "0", "9", "3", "0", "0", "0",
               "_", "1", ".eml">>
NameDashed == <<"x", "2", "0", "1", "9", "-", "0", "7", "-", "1", "5", ".eml">>
NameCompact == <<"2", "0", "1", "9", "0", "7", "1", "5", ".eml">>

Single(name, date_hdr, text, subject, message_id, created, charset, bytes) ==
    [name |-> name, date_hdr |-> date_hdr, multipart |-> FALSE,
     parts |-> <<Part("text/plain", text)>>,
     subject |-> subject, message_id |-> message_id, created |-> created,
     charset |-> charset, bytes |-> bytes]

FixPool ==
    { \* a valid Date header beside other dates everywhere
      Single(NameTimed, Hdr("rfc", D1), <<Item(1, D2)>>, <<Item(4, D3)>>,
             <<Item(6, D3)>>, <<Item(5, D2)>>, "utf-8", "utf8"),
      \* no Date header; an unparsable match, then matches of two families
      Single(NameTimed, Hdr("none", None), <<Item(4, D3), Item(1, None), Item(1, D2)>>,
             <<Item(1, D1)>>, <<>>, <<>>, "none", "ascii"),
      \* an unreadable Date header; dates in Message-ID and creation header
      Single(NameDashed, Hdr("junk", None), <<Item(7, None)>>, <<>>,
             <<Item(6, D3)>>, <<Item(5, D2)>>, "us-ascii", "ascii"),
      \* only the creation header has a date
      Single(NamePlain, Hdr("none", None), <<>>, <<Item(2, None)>>, <<>>,
             <<Item(5, D1)>>, "none", "utf8"),
      \* only the file name has a date, with a time
      Single(NameTimed, Hdr("junk", None), <<>>, <<>>, <<>>, <<>>, "utf-8", "latin-f8"),
      \* only the file name has a date, yyyy-mm-dd
      Single(NameDashed, Hdr("none", None), <<>>, <<>>, <<>>, <<>>, "none", "latin"),
      \* only the file name has a date, yyyymmdd
      Single(NameCompact, Hdr("none", None), <<>>, <<>>, <<>>, <<>>, "none", "ascii"),
      \* no date anywhere
      Single(NamePlain, Hdr("junk", None), <<Item(4, None)>>, <<>>, <<>>, <<>>,
             "none", "ascii"),
      \* a Date header only the lenient parser reads
      Single(NamePlain, Hdr("fuzzy", D2), <<Item(5, D3)>>, <<>>, <<>>, <<>>,
             "iso-8859-1", "latin-f8"),
      \* a valid Date header, a charset Python does not know
      Single(NamePlain, Hdr("rfc", D3), <<>>, <<>>, <<>>, <<>>, "x-unknown", "ascii"),
      \* multipart: an attachment, then an HTML part
      [name |-> NameCompact, date_hdr |-> Hdr("none", None), multipart |-> TRUE,
       parts |-> <<Part("image/png", <<Item(1, D1)>>),
                   Part("text/html", <<Item(2, None), Item(2, D2)>>)>>,
       subject |-> <<Item(1, D3)>>, message_id |-> <<>>, created |-> <<>>,
       charset |-> "none", bytes |-> "ascii"],
      \* multipart: two text parts, the later one matching an earlier pattern
      [name |-> NameDashed, date_hdr |-> Hdr("junk", None), multipart |-> TRUE,
       parts |-> <<Part("text/plain", <<Item(4, D3)>>),
                   Part("text/html", <<Item(1, D1)>>)>>,
       subject |-> <<>>, message_id |-> <<Item(3, D1)>>, created |-> <<>>,
       charset |-> "none", bytes |-> "ascii"] }

FixDirs == SeqsUpTo(FixPool, MaxFiles)

\* ---- __main__ and process_folder

Start1 ==
    /\ pc = "main1"
    /\ argc \in 1..3
    /\ input_exists \in BOOLEAN
    /\ exit_code = [st \in 0..3 |-> -1]
    /\ fix_dir \in IF input_exists THEN FixDirs ELSE {<<>>}
    /\ fix_i = 1
    /\ successful = 0
    /\ failed_files = <<>>
    /\ fixed_tree = {}
    /\ IdleMbox
    /\ IdleEml
    /\ IdleDedup

Init1 == Start1 /\ FreshDisk

\* lines 391-397, 356-361: a usage error ends the script with 1; when the
\* input folder does not exist process_folder prints and returns, and the
\* script ends normally
Main1 ==
    /\ pc = "main1"
    /\ IF argc # 2
       THEN /\ exit_code' = [exit_code EXCEPT ![1] = 1]
            /\ pc' = "exit1"
       ELSE IF ~input_exists
       THEN /\ exit_code' = [exit_code EXCEPT ![1] = 0]
            /\ pc' = "exit1"
       ELSE /\ pc' = "process"
            /\ UNCHANGED exit_code
    /\ UNCHANGED <<argc, input_exists, fixVars, mboxVars, emlVars, dedupVars>>
    /\ output_root' = IF argc = 2 /\ input_exists
                      THEN setup_output_directory(existing) ELSE output_root
    /\ existing' = IF argc = 2 /\ input_exists
                   THEN existing \cup {output_root'} ELSE existing
    /\ UNCHANGED <<before, reruns>>

\* lines 368-375: one iteration of the loop over the .eml files
Process1 ==
    /\ pc = "process"
    /\ fix_i <= Len(fix_dir)
    /\ \E r \in {process_eml_file(fix_dir[fix_i])} :
          IF r.ok
          THEN /\ successful' = successful + 1
               /\ fixed_tree' = fixed_tree \cup
                     {[path |-> fix_i, date |-> r.date, headers |-> r.headers,
                       codec |-> r.codec]}
               /\ UNCHANGED failed_files
          ELSE /\ failed_files' = Append(failed_files, fix_i)
               /\ UNCHANGED <<successful, fixed_tree>>
    /\ fix_i' = fix_i + 1
    /\ UNCHANGED <<pc, argc, input_exists, exit_code, fix_dir, mboxVars, emlVars,
                   dedupVars>>
    /\ UNCHANGED diskVars

\* lines 377-389, 397: the summary; the script ends normally
Finish1 ==
    /\ pc = "process"
    /\ fix_i > Len(fix_dir)
    /\ exit_code' = [exit_code EXCEPT ![1] = 0]
    /\ pc' = "exit1"
    /\ UNCHANGED <<argc, input_exists, fixVars, mboxVars, emlVars, dedupVars>>
    /\ UNCHANGED diskVars

Next1 == Main1 \/ Process1 \/ Finish1

SpecDate == Init1 /\ [][Next1]_vars

-----------------------------------------------------------------------------
\* the file written for the i-th file of the folder, if any
Written(i) == { o \in fixed_tree : o.path = i }
Attempted == 1..(fix_i - 1)

(* C3: a message whose Date header is a valid RFC-822 date is dated with   *)
(* exactly that date, whatever dates its body, its Subject, Message-ID and *)
(* X-Mail-Created-Date headers and its file name hold.                     *)
DateHeaderShortCircuits ==
    \A i \in Attempted :
        fix_dir[i].date_hdr.kind = "rfc" =>
            /\ parse_date_header(fix_dir[i]) = fix_dir[i].date_hdr.date
            /\ \A o \in Written(i) : o.date = fix_dir[i].date_hdr.date

\* a file was written with the date of its Date header although its body,
\* its headers and its file name hold other dates
DateHeaderWitness ==
    \E i \in Attempted :
        LET f == fix_dir[i]
        IN /\ f.date_hdr.kind = "rfc"
           /\ BodyScan(f) \notin {None, f.date_hdr.date}
           /\ HeaderScan(f) \notin {None, f.date_hdr.date}
           /\ FilenameScan(f) \notin {None, f.date_hdr.date}
           /\ \E o \in Written(i) : o.date = f.date_hdr.date

\* the results of the steps C4 names, in the order it names them
StepResults(f) ==
    << BodyScan(f), search_content(f.subject), search_content(f.message_id),
       search_content(f.created), FilenameScan(f) >>

\* the result of the first step that succeeds, None if none does
FirstSuccess(f) ==
    IF \A k \in 1..5 : StepResults(f)[k] = None THEN None
    ELSE StepResults(f)[CHOOSE k \in 1..5 :
                          /\ StepResults(f)[k] # None
                          /\ \A j \in 1..(k - 1) : StepResults(f)[j] = None]

(* C4: a message with no Date header, or one no parser reads, is dated by  *)
(* the first step that succeeds in the order body, Subject, Message-ID,    *)
(* X-Mail-Created-Date, file name.                                         *)
FallbackPrecedence ==
    \A i \in Attempted :
        fix_dir[i].date_hdr.kind \in {"none", "junk"} =>
            /\ parse_date_header(fix_dir[i]) = FirstSuccess(fix_dir[i])
            /\ \A o \in Written(i) : o.date = FirstSuccess(fix_dir[i])

\* a file dated from its body although a header and the file name hold
\* other dates, and a file dated from its file name alone
FallbackWitness ==
    /\ \E i \in Attempted :
         LET f == fix_dir[i]
         IN /\ f.date_hdr.kind \in {"none", "junk"}
            /\ BodyScan(f) # None
            /\ HeaderScan(f) \notin {None, BodyScan(f)}
            /\ FilenameScan(f) \notin {None, BodyScan(f)}
            /\ \E o \in Written(i) : o.date = BodyScan(f)
    /\ \E i \in Attempted :
         LET f == fix_dir[i]
         IN /\ f.date_hdr.kind \in {"none", "junk"}
            /\ BodyScan(f) = None /\ HeaderScan(f) = None
            /\ \E o \in Written(i) : o.date = FilenameScan(f)

\* every step of the chain fails on the file
Unresolvable(f) ==
    /\ f.date_hdr.kind # "rfc"
    /\ BodyScan(f) = None
    /\ HeaderScan(f) = None
    /\ FilenameScan(f) = None

InFailed(i) == \E k \in 1..Len(failed_files) : failed_files[k] = i

FixFinished == pc = "exit1" /\ argc = 2 /\ input_exists

(* C9: a file on which every step of the chain fails is reported failed    *)
(* and nothing is written for it; the files after it are still attempted,  *)
(* and at the end successful plus the number of failed files is the number *)
(* of .eml files.                                                          *)
UnresolvableIsPerFileFailure ==
    /\ \A i \in Attempted :
          Unresolvable(fix_dir[i]) => InFailed(i) /\ Written(i) = {}
    /\ successful + Len(failed_files) = fix_i - 1
    /\ FixFinished =>
          /\ fix_i = Len(fix_dir) + 1
          /\ successful + Len(failed_files) = Len(fix_dir)

\* a finished run in which an unresolvable file was followed by a file
\* that was written
UnresolvableWitness ==
    /\ FixFinished
    /\ \E i, j \in 1..Len(fix_dir) :
         /\ i < j
         /\ Unresolvable(fix_dir[i]) /\ InFailed(i)
         /\ Written(j) # {}

-----------------------------------------------------------------------------
(* The four scripts as command-line programs: any one of the stages is     *)
(* invoked, with any number of arguments, on an input path that exists or  *)
(* does not.                                                               *)
InitCli == Init1 \/ Init2 \/ Init3

NextCli == Next1 \/ Next2 \/ Next3

SpecCli == InitCli /\ [][NextCli]_vars

\* the invocation the script at exit was started with was a usage error or
\* named an input path that does not exist
BadInvocation ==
    \/ ~input_exists
    \/ pc = "exit0" /\ argc # 3
    \/ pc \in {"exit1", "exit2"} /\ argc # 2
    \/ pc = "exit3" /\ argc \notin {2, 3}

\* the script at exit ran its batch to the end
BatchCompleted ==
    \/ pc = "exit0" /\ save_i > Len(messages) /\ processed0 + errors0 = Len(messages)
    \/ pc = "exit1" /\ fix_i > Len(fix_dir)
    \/ pc = "exit2" /\ grp_i > Len(duplicates) /\ an_i > Len(src_tree)
    \/ pc = "exit3" /\ email_files # <<>> /\ emit_i > Len(email_files)

\* the exit code of the script that has just ended
ExitCodeAt ==
    CASE pc = "exit0" -> exit_code[0]
      [] pc = "exit1" -> exit_code[1]
      [] pc = "exit2" -> exit_code[2]
      [] pc = "exit3" -> exit_code[3]

(* C10: each of the four scripts ends with exit code 1 when it is started  *)
(* with a wrong number of arguments or on an input path that does not      *)
(* exist, and with exit code 0 when its batch ran to the end, whatever     *)
(* failed for single items.                                                *)
ExitCodes ==
    pc \in {"exit0", "exit1", "exit2", "exit3"} =>
        /\ BadInvocation => ExitCodeAt = 1
        /\ ~BadInvocation /\ BatchCompleted => ExitCodeAt = 0

-----------------------------------------------------------------------------
(* A script is started again with the same arguments on the same input,    *)
(* in the working directory the earlier run left.                          *)
MaxReruns == 1

\* output folders an earlier session may have left for the same input name
OldFolders == {{}, {1}, {1, 3}}

AnyDisk ==
    /\ existing \in OldFolders
    /\ output_root = 0
    /\ before = Snapshot
    /\ reruns = 0

\* 0-mbox_to_eml.py again: the mbox and the output directory are as the
\* earlier run left them
Again0 ==
    /\ pc = "exit0"
    /\ reruns < MaxReruns
    /\ pc' = "exit3"
    /\ exit_code' = [exit_code EXCEPT ![0] = -1]
    /\ messages' = <<>>
    /\ save_i' = 1
    /\ processed0' = 0
    /\ errors0' = 0
    /\ before' = Snapshot
    /\ reruns' = reruns + 1
    /\ UNCHANGED <<argc, input_exists, out_dir, existing, output_root,
                   mboxVars, dedupVars, fixVars>>

\* 1-email_date_fixer.py again
Again1 ==
    /\ pc = "exit1"
    /\ reruns < MaxReruns
    /\ pc' = "main1"
    /\ exit_code' = [exit_code EXCEPT ![1] = -1]
    /\ fix_i' = 1
    /\ successful' = 0
    /\ failed_files' = <<>>
    /\ fixed_tree' = {}
    /\ output_root' = 0
    /\ before' = Snapshot
    /\ reruns' = reruns + 1
    /\ UNCHANGED <<argc, input_exists, fix_dir, existing,
                   mboxVars, emlVars, dedupVars>>

\* 2-delete_duplicates.py again
Again2 ==
    /\ pc = "exit2"
    /\ run = 1
    /\ reruns < MaxReruns
    /\ pc' = "main2"
    /\ exit_code' = [exit_code EXCEPT ![2] = -1]
    /\ an_i' = 1
    /\ total_files' = 0
    /\ duplicates' = <<>>
    /\ grp_i' = 1
    /\ kept_files' = 0
    /\ duplicate_groups' = 0
    /\ total_duplicates' = 0
    /\ out_tree' = {}
    /\ chosen' = <<>>
    /\ output_root' = 0
    /\ before' = Snapshot
    /\ reruns' = reruns + 1
    /\ UNCHANGED <<argc, input_exists, run, src_tree, first_run, existing,
                   mboxVars, emlVars, fixVars>>

\* 3-eml_to_mbox.py again: the mbox of the earlier run is at output_mbox
Again3 ==
    /\ pc = "exit3"
    /\ reruns < MaxReruns
    /\ pc' = "main3"
    /\ exit_code' = [exit_code EXCEPT ![3] = -1]
    /\ scan_i' = 1
    /\ total_found' = 0
    /\ email_files' = <<>>
    /\ emit_i' = 1
    /\ processed' = 0
    /\ errors' = 0
    /\ emitted' = <<>>
    /\ before' = Snapshot
    /\ reruns' = reruns + 1
    /\ UNCHANGED <<argc, input_exists, eml_dir, mbox_exists, mbox, existing,
                   output_root, emlVars, dedupVars, fixVars>>

InitRerun == (Start1 \/ Start2 \/ Start3) /\ AnyDisk

NextRerun == NextCli \/ Again0 \/ Again1 \/ Again2 \/ Again3

SpecRerun == InitRerun /\ [][NextRerun]_vars

\* the output folder of the running script did not exist when it started
FreshOutputFolder == output_root # 0 => output_root \notin before.existing

\* the mbox that was there when the run started is as it was
MboxUntouched == before.mbox_exists => mbox_exists /\ mbox = before.mbox

\* the files that were in the output directory when the run started are as
\* they were: none was written again
EmlFilesUntouched ==
    /\ Len(out_dir) >= Len(before.out_dir)
    /\ SubSeq(out_dir, 1, Len(before.out_dir)) = before.out_dir
    /\ \A i \in 1..Len(before.out_dir) :
          \A j \in (Len(before.out_dir) + 1)..Len(out_dir) :
              out_dir[j].filename # out_dir[i].filename

(* C11: a run of any stage writes only under an output location that did  *)
(* not exist when it started, and leaves every file that was there, the    *)
(* output of an earlier run included, as it was.                           *)
RerunSafe == FreshOutputFolder /\ MboxUntouched /\ EmlFilesUntouched

-----------------------------------------------------------------------------
(* C12: within one run of convert_to_eml no two messages get the same     *)
(* output file name, whatever their dates and subjects.                    *)
UniqueFilenames ==
    \A i, j \in 1..Len(out_dir) :
        i # j => out_dir[i].filename # out_dir[j].filename

\* the file name without its counter and suffix
Uncounted(filename) == SubSeq(filename, 1, Len(filename) - 2)

\* a finished run that saved two messages with the same date whose
\* subjects, longer than the limit, are the same after truncation
UniqueFilenamesWitness ==
    /\ pc = "exit0"
    /\ exit_code[0] = 0
    /\ \E i, j \in 1..Len(out_dir) :
         /\ i # j
         /\ out_dir[i].content # out_dir[j].content
         /\ Len(MsgGet(out_dir[i].content, "Subject:")) > SubjectLimit
         /\ Uncounted(out_dir[i].filename) = Uncounted(out_dir[j].filename)

-----------------------------------------------------------------------------
(* C13: a Date header that the RFC-822 parser rejects and the lenient      *)
(* parser reads dates the message with the lenient parser's result; the    *)
(* body is not scanned for it.                                             *)
LenientRetry ==
    \A i \in Attempted :
        fix_dir[i].date_hdr.kind = "fuzzy" =>
            /\ parse_date_header(fix_dir[i]) = fix_dir[i].date_hdr.date
            /\ \A o \in Written(i) : o.date = fix_dir[i].date_hdr.date

\* the date a date-only pattern names in the file name: the groups of its
\* leftmost match read as the fields its format lists, at 00:00:00
NamedDate(name, p) ==
    IF SearchPos(name, p.pattern, 1) = 0 THEN None
    ELSE Midnight(DateOfFields(
            [k \in 1..3 |->
                <<SelectSeq(p.fmt, LAMBDA el : el \in Directives)[k],
                  Num(GroupsAt(name, SearchPos(name, p.pattern, 1), p.pattern)[k])>>]))

NamedDates(name) ==
    { NamedDate(name, date_only_patterns[k]) : k \in 1..Len(date_only_patterns) }
        \ {None}

(* C14: when the Date header, the body and the header values yield nothing *)
(* and no pattern with a time matches the file name, a file name that      *)
(* holds a valid date in one of the date-only formats dates the message    *)
(* with that date at 00:00:00.                                             *)
DateOnlyFilename ==
    \A i \in Attempted :
        (/\ HeaderTry(fix_dir[i]) = None
         /\ BodyScan(fix_dir[i]) = None
         /\ HeaderScan(fix_dir[i]) = None
         /\ FirstTimed(fix_dir[i].name, filename_patterns) = None
         /\ NamedDates(fix_dir[i].name) # {})
        => /\ parse_date_header(fix_dir[i]) \in NamedDates(fix_dir[i].name)
           /\ \E o \in Written(i) : o.date \in NamedDates(fix_dir[i].name)

\* the texts search_content is run on for a file
ScannedTexts(f) ==
    { f.parts[k].text : k \in 1..Len(f.parts) } \cup {f.subject, f.message_id, f.created}

\* position k of the text holds the parsable match that comes first when
\* the patterns are taken in order and, within a pattern, the matches left
\* to right
ComesFirst(text, k) ==
    /\ text[k].date # None
    /\ \A j \in 1..Len(text) :
          (j # k /\ text[j].date # None) =>
              \/ text[j].fam > text[k].fam
              \/ text[j].fam = text[k].fam /\ j > k

(* C15: search_content returns the date of the first parsable match in the *)
(* order of the pattern list and then of the text; unparsable matches are  *)
(* skipped, and None is returned only when no match parses.                *)
PatternScanOrder ==
    \A i \in Attempted : \A text \in ScannedTexts(fix_dir[i]) :
        /\ \A k \in 1..Len(text) :
              ComesFirst(text, k) => search_content(text) = text[k].date
        /\ (\A k \in 1..Len(text) : text[k].date = None) => search_content(text) = None

\* a file was dated from a body in which a match of a later pattern comes
\* before an unparsable and then a parsable match of the first pattern
PatternScanWitness ==
    \E i \in Attempted :
        LET text == fix_dir[i].parts[1].text
        IN /\ Len(text) = 3
           /\ text[1].date # None /\ text[1].fam > text[3].fam
           /\ text[2].date = None /\ text[2].fam = text[3].fam
           /\ ComesFirst(text, 3)
           /\ text[3].date # text[1].date
           /\ \E o \in Written(i) : o.date = text[3].date

(* C16: decoding the body of a single-part message returns text for every  *)
(* payload and every declared charset; no exception leaves the step.       *)
DecodingNeverRaises ==
    \A i \in Attempted :
        ~fix_dir[i].multipart => DecodeBody(fix_dir[i]).raised = ""

-----------------------------------------------------------------------------
\* the header names of the standardized message, in the order written
StandardNames ==
    << "From", "To", "Subject", "Message-ID", "Date", "Content-Type",
       "MIME-Version", "Content-Transfer-Encoding",
       "X-MS-Exchange-Organization-MessageDirectionality",
       "X-MS-Exchange-Organization-AuthAs",
       "X-MS-Exchange-Organization-AuthSource",
       "X-MS-Exchange-Organization-Network-Message-Id",
       "Received", "Received", "Received" >>

NamesOf(headers) == [k \in 1..Len(headers) |-> headers[k][1]]

(* C17: every message written carries exactly the eight core header names  *)
(* and the provenance block, no other header of the input, and one Date    *)
(* header, which holds the canonical form of the resolved date.            *)
StandardHeaderSet ==
    \A o \in fixed_tree :
        /\ NamesOf(o.headers) = StandardNames
        /\ \A k \in 1..Len(o.headers) :
              o.headers[k][1] = "Date" => o.headers[k][2] = formatdate(o.date)
        /\ Cardinality({ k \in 1..Len(o.headers) : o.headers[k][1] = "Date" }) = 1

\* a file was written whose input had a Date header and a header outside
\* the standard set
StandardHeaderWitness ==
    \E o \in fixed_tree :
        /\ HasHeader(InputHeaders(fix_dir[o.path]), "Date")
        /\ HasHeader(InputHeaders(fix_dir[o.path]), "X-Mail-Created-Date")
        /\ ~HasHeader(o.headers, "X-Mail-Created-Date")

-----------------------------------------------------------------------------
\* the entries of email_files made for the i-th file of the directory
EntriesOf(i) == { k \in 1..Len(email_files) : email_files[k].eml_path = i }

Scanned == 1..(scan_i - 1)

(* C18: a file whose Date header is missing or does not parse is listed    *)
(* for the mbox with its modification time as date, and a file whose From  *)
(* header is missing or empty is listed with unknown@unknown.com.          *)
AssemblerDateFallback ==
    \A i \in Scanned :
        /\ (\/ MsgGet(eml_dir[i].text, "Date:") = <<>>
            \/ parsedate_to_datetime(MsgGet(eml_dir[i].text, "Date:")) = NoDate)
           => \E k \in EntriesOf(i) : email_files[k].date = eml_dir[i].mtime
        /\ Strip(MsgGet(eml_dir[i].text, "From:")) = <<>>
           => \A k \in EntriesOf(i) : email_files[k].from_addr = UnknownSender

\* the assembler ran to the end
AssemblerFinished == pc = "exit3" /\ exit_code[3] = 0

\* a line as C19 wants it in the mbox
Escaped(line) == IF line # <<>> /\ line[1] = FromSp THEN <<">">> \o line ELSE line

\* a text with its last line ended, followed by a blank line
Terminated(text) ==
    IF text = <<>> \/ text[Len(text)] = NL THEN text \o <<NL>> ELSE text \o <<NL, NL>>

\* the k-th message as C19 wants it in the mbox
QuotedMessage(k) ==
    create_mbox_separator(email_files[k].date, email_files[k].from_addr)
    \o Terminated(Concat([n \in 1..Len(Lines(eml_dir[email_files[k].eml_path].text)) |->
                            Escaped(Lines(eml_dir[email_files[k].eml_path].text)[n])]))

\* the first lines of the separators written
SeparatorLines ==
    { Lines(create_mbox_separator(email_files[k].date, email_files[k].from_addr))[1] :
        k \in 1..Len(email_files) }

(* C19: after a run without errors every line of the mbox that begins with *)
(* "From " is a separator line, and the mbox is, message by message, the   *)
(* separator, the lines of the message with ">" before those that begin    *)
(* with "From ", and a blank line.                                         *)
QuotingInvariant ==
    (AssemblerFinished /\ errors = 0) =>
        /\ \A n \in 1..Len(Lines(mbox)) :
              StartsWithFrom(Lines(mbox)[n]) => Lines(mbox)[n] \in SeparatorLines
        /\ mbox = Concat([k \in 1..Len(email_files) |-> QuotedMessage(k)])

\* the lines of the mbox that begin with "From "
FromLines == { n \in 1..Len(Lines(mbox)) : StartsWithFrom(Lines(mbox)[n]) }

(* C20: after any run the mbox holds as many separator lines as messages   *)
(* were processed; a message whose copy failed left nothing in it.         *)
FailedLeaveNoTrace ==
    AssemblerFinished => Cardinality(FromLines) = processed

=============================================================================
